---- MODULE Spec2Model ----
(***************************************************************************)
(* Token-bucket rate limiter (src/rate_limiter.py, class RateLimiter).     *)
(*                                                                         *)
(* Numbers.  The program computes with Python floats.  Every quantity of   *)
(* the model (tokens, costs, clock readings, waiting times) is an integer  *)
(* count of one unit of least precision: sums, differences, min and the    *)
(* product with the (integral) refill rate are exact on that grid, as they *)
(* are in IEEE-754 for values of small magnitude, and the one division of  *)
(* the program (line 61) rounds its quotient to the nearest representable  *)
(* value, ties to even, as IEEE-754 division does.                         *)
(*                                                                         *)
(* Time.  clock is the latest reading of time.monotonic(); a reading is    *)
(* the previous one plus any d >= 0, so the clock never runs backwards.    *)
(*                                                                         *)
(* Threads.  Each thread runs allow_request; its position is pc[t] and its *)
(* locals are cost[t], now[t], time_elapsed[t], tokens_to_add[t].          *)
(***************************************************************************)
EXTENDS Integers, Sequences, FiniteSets, TLC

\* ---------------------------------------------------------------- bounds
NumThreads == 2
MaxCalls == 3
MaxClock == 1
MaxCapacity == 2
MaxRate == 2

Threads == 1..NumThreads
\* arguments a caller can pass: the constructor and allow_request check nothing
Capacities == 0..MaxCapacity
Rates == 0..MaxRate
\* costs up to one more than the largest capacity, which no bucket can hold
MaxCost == MaxCapacity + 1
Costs == {-1} \cup (1..MaxCost)

VARIABLES built, max_tokens, tokens_per_second, tokens, last_refill, lock,
          clock, pc, cost, now, time_elapsed, tokens_to_add, history

vars == <<built, max_tokens, tokens_per_second, tokens, last_refill, lock,
          clock, pc, cost, now, time_elapsed, tokens_to_add, history>>

bucket == <<built, max_tokens, tokens_per_second, tokens, last_refill, lock>>
locals == <<now, time_elapsed, tokens_to_add>>

\* ---------------------------------------------------------------- helpers
Min(a, b) == IF a <= b THEN a ELSE b

\* a / b on positive b: the quotient rounded to the nearest grid value, ties to even
DivPos(a, b) ==
  LET q == a \div b
      r == a - q * b
  IN  IF 2 * r < b THEN q
      ELSE IF 2 * r > b THEN q + 1
      ELSE IF q % 2 = 0 THEN q ELSE q + 1

\* Python's float division for b # 0 (b = 0 raises ZeroDivisionError)
Div(a, b) == IF b > 0 THEN DivPos(a, b) ELSE DivPos(-a, -b)

InFlight == Cardinality({t \in Threads : pc[t] # "idle"})

\* ---------------------------------------------------------------- initial state
\* before the constructor runs; clock readings are relative to the first one
Init ==
  /\ built = FALSE
  /\ max_tokens = 0
  /\ tokens_per_second = 0
  /\ tokens = 0
  /\ last_refill = 0
  /\ lock = FALSE
  /\ clock = 0
  /\ pc = [t \in Threads |-> "idle"]
  /\ cost = [t \in Threads |-> 0]
  /\ now = [t \in Threads |-> 0]
  /\ time_elapsed = [t \in Threads |-> 0]
  /\ tokens_to_add = [t \in Threads |-> 0]
  /\ history = <<>>

\* ---------------------------------------------------------------- actions
\* New with an empty bucket
New_Empty(c, r) ==
  /\ ~built
  /\ built' = TRUE
  /\ max_tokens' = c
  /\ tokens_per_second' = r
  /\ tokens' = 0
  /\ last_refill' = clock
  /\ lock' = FALSE
  /\ UNCHANGED <<clock, pc, cost, locals, history>>

\* RateLimiter.__init__(max_tokens, tokens_per_second): no argument is checked
New(c, r) ==
  /\ ~built
  /\ built' = TRUE
  /\ max_tokens' = c
  /\ tokens_per_second' = r
  /\ tokens' = c
  /\ last_refill' = clock
  /\ lock' = FALSE
  /\ UNCHANGED <<clock, pc, cost, locals, history>>

\* a thread calls allow_request and reaches the with statement
Call(t) ==
  /\ built
  /\ pc[t] = "idle"
  /\ Len(history) + InFlight < MaxCalls
  /\ pc' = [pc EXCEPT ![t] = "acquire"]
  /\ UNCHANGED <<bucket, clock, cost, locals, history>>

\* Acquire without the lock: the with statement left out
Acquire_NoLock(t, c) ==
  /\ pc[t] = "acquire"
  /\ lock' = TRUE
  /\ pc' = [pc EXCEPT ![t] = "refill_read"]
  /\ cost' = [cost EXCEPT ![t] = c]
  /\ UNCHANGED <<built, max_tokens, tokens_per_second, tokens, last_refill,
                 clock, locals, history>>

\* with self.lock: blocks until the lock is free.  The argument c of the call
\* is private to the thread and first used inside the block, so its value is
\* drawn here rather than while the thread waits.
Acquire(t, c) ==
  /\ pc[t] = "acquire"
  /\ ~lock
  /\ lock' = TRUE
  /\ pc' = [pc EXCEPT ![t] = "refill_read"]
  /\ cost' = [cost EXCEPT ![t] = c]
  /\ UNCHANGED <<built, max_tokens, tokens_per_second, tokens, last_refill,
                 clock, locals, history>>

\* RefillRead with the rate left out of tokens_to_add
RefillRead_NoRate(t, d) ==
  /\ pc[t] = "refill_read"
  /\ clock + d <= MaxClock
  /\ clock' = clock + d
  /\ now' = [now EXCEPT ![t] = clock']
  /\ time_elapsed' = [time_elapsed EXCEPT ![t] = clock' - last_refill]
  /\ tokens_to_add' = [tokens_to_add EXCEPT ![t] = clock' - last_refill]
  /\ pc' = [pc EXCEPT ![t] = "refill_write"]
  /\ UNCHANGED <<bucket, cost, history>>

\* _refill_tokens, lines 33-37: read the clock, compute the tokens to add.
\* time.monotonic() returns the previous reading plus some d >= 0.
RefillRead(t, d) ==
  /\ pc[t] = "refill_read"
  /\ clock + d <= MaxClock
  /\ clock' = clock + d
  /\ now' = [now EXCEPT ![t] = clock']
  /\ time_elapsed' = [time_elapsed EXCEPT ![t] = clock' - last_refill]
  /\ tokens_to_add' = [tokens_to_add EXCEPT ![t] = (clock' - last_refill) * tokens_per_second]
  /\ pc' = [pc EXCEPT ![t] = "refill_write"]
  /\ UNCHANGED <<bucket, cost, history>>

\* RefillWrite with the lock held around the refill only
RefillWrite_Unlocks(t) ==
  /\ pc[t] = "refill_write"
  /\ tokens' = Min(max_tokens, tokens + tokens_to_add[t])
  /\ last_refill' = now[t]
  /\ lock' = FALSE
  /\ pc' = [pc EXCEPT ![t] = "decide"]
  /\ UNCHANGED <<built, max_tokens, tokens_per_second, clock, cost, locals, history>>

\* RefillWrite without the clamp to max_tokens
RefillWrite_NoClamp(t) ==
  /\ pc[t] = "refill_write"
  /\ tokens' = tokens + tokens_to_add[t]
  /\ last_refill' = now[t]
  /\ pc' = [pc EXCEPT ![t] = "decide"]
  /\ UNCHANGED <<built, max_tokens, tokens_per_second, lock, clock, cost, locals, history>>

\* RefillWrite that keeps the old stamp, so the same time refills again
RefillWrite_NoStamp(t) ==
  /\ pc[t] = "refill_write"
  /\ tokens' = Min(max_tokens, tokens + tokens_to_add[t])
  /\ last_refill' = last_refill
  /\ pc' = [pc EXCEPT ![t] = "decide"]
  /\ UNCHANGED <<built, max_tokens, tokens_per_second, lock, clock, cost, locals, history>>

\* _refill_tokens, lines 40-41: add, clamp to max_tokens, stamp last_refill
RefillWrite(t) ==
  /\ pc[t] = "refill_write"
  /\ tokens' = Min(max_tokens, tokens + tokens_to_add[t])
  /\ last_refill' = now[t]
  /\ pc' = [pc EXCEPT ![t] = "decide"]
  /\ UNCHANGED <<built, max_tokens, tokens_per_second, lock, clock, cost, locals, history>>

\* Decide with > in place of >=
Decide_Strict(t) ==
  /\ pc[t] = "decide"
  /\ pc' = [pc EXCEPT ![t] = IF tokens > cost[t] THEN "debit" ELSE "deny"]
  /\ UNCHANGED <<bucket, clock, cost, locals, history>>

\* Decide that debits whenever the bucket is not in debt
Decide_AnyLevel(t) ==
  /\ pc[t] = "decide"
  /\ pc' = [pc EXCEPT ![t] = IF tokens >= 0 THEN "debit" ELSE "deny"]
  /\ UNCHANGED <<bucket, clock, cost, locals, history>>

\* line 55: if self.tokens >= cost
Decide(t) ==
  /\ pc[t] = "decide"
  /\ pc' = [pc EXCEPT ![t] = IF tokens >= cost[t] THEN "debit" ELSE "deny"]
  /\ UNCHANGED <<bucket, clock, cost, locals, history>>

\* what the caller gets back, with the bucket as the call left it
Returned(t, o, v, lvl) ==
  [cost |-> cost[t], outcome |-> o, value |-> v, now |-> now[t], level |-> lvl]

\* leaving the with block: the lock is released and the locals die
Leave(t, o, v, lvl) ==
  /\ lock' = FALSE
  /\ history' = Append(history, Returned(t, o, v, lvl))
  /\ pc' = [pc EXCEPT ![t] = "idle"]
  /\ cost' = [cost EXCEPT ![t] = 0]
  /\ now' = [now EXCEPT ![t] = 0]
  /\ time_elapsed' = [time_elapsed EXCEPT ![t] = 0]
  /\ tokens_to_add' = [tokens_to_add EXCEPT ![t] = 0]

\* Debit returning the level it found instead of the level it leaves
Debit_ReturnsOld(t) ==
  /\ pc[t] = "debit"
  /\ tokens' = tokens - cost[t]
  /\ Leave(t, "allowed", tokens, tokens - cost[t])
  /\ UNCHANGED <<built, max_tokens, tokens_per_second, last_refill, clock>>

\* lines 57-58: self.tokens -= cost; return True, self.tokens
Debit(t) ==
  /\ pc[t] = "debit"
  /\ tokens' = tokens - cost[t]
  /\ Leave(t, "allowed", tokens - cost[t], tokens - cost[t])
  /\ UNCHANGED <<built, max_tokens, tokens_per_second, last_refill, clock>>

\* Deny that debits the cost all the same
Deny_Debits(t) ==
  /\ pc[t] = "deny"
  /\ tokens' = tokens - cost[t]
  /\ IF tokens_per_second = 0
       THEN Leave(t, "ZeroDivisionError", 0, tokens - cost[t])
       ELSE Leave(t, "denied", Div(cost[t] - tokens, tokens_per_second), tokens - cost[t])
  /\ UNCHANGED <<built, max_tokens, tokens_per_second, last_refill, clock>>

\* Deny with the wait computed from a full bucket instead of the current level
Deny_FromCapacity(t) ==
  /\ pc[t] = "deny"
  /\ IF tokens_per_second = 0
       THEN Leave(t, "ZeroDivisionError", 0, tokens)
       ELSE Leave(t, "denied", Div(cost[t] - max_tokens, tokens_per_second), tokens)
  /\ UNCHANGED <<built, max_tokens, tokens_per_second, tokens, last_refill, clock>>

\* Deny whose exception leaves the lock held, as without the with statement
Deny_ErrorKeepsLock(t) ==
  /\ pc[t] = "deny"
  /\ IF tokens_per_second = 0
       THEN /\ lock' = lock
            /\ history' = Append(history, Returned(t, "ZeroDivisionError", 0, tokens))
            /\ pc' = [pc EXCEPT ![t] = "idle"]
            /\ cost' = [cost EXCEPT ![t] = 0]
            /\ now' = [now EXCEPT ![t] = 0]
            /\ time_elapsed' = [time_elapsed EXCEPT ![t] = 0]
            /\ tokens_to_add' = [tokens_to_add EXCEPT ![t] = 0]
       ELSE Leave(t, "denied", Div(cost[t] - tokens, tokens_per_second), tokens)
  /\ UNCHANGED <<built, max_tokens, tokens_per_second, tokens, last_refill, clock>>

\* lines 61-62: wait_time = (cost - self.tokens) / self.tokens_per_second;
\* a rate of 0 raises ZeroDivisionError out of the with block
Deny(t) ==
  /\ pc[t] = "deny"
  /\ IF tokens_per_second = 0
       THEN Leave(t, "ZeroDivisionError", 0, tokens)
       ELSE Leave(t, "denied", Div(cost[t] - tokens, tokens_per_second), tokens)
  /\ UNCHANGED <<built, max_tokens, tokens_per_second, tokens, last_refill, clock>>

Next ==
  \/ \E c \in Capacities, r \in Rates : New(c, r)
  \/ \E t \in Threads : Call(t)
  \/ \E t \in Threads, c \in Costs : Acquire(t, c)
  \/ \E t \in Threads, d \in 0..MaxClock : RefillRead(t, d)
  \/ \E t \in Threads : RefillWrite(t)
  \/ \E t \in Threads : Decide(t)
  \/ \E t \in Threads : Debit(t)
  \/ \E t \in Threads : Deny(t)

Spec == Init /\ [][Next]_vars

\* ---------------------------------------------------------------- observers
\* the bucket the documentation describes: positive capacity and refill rate
ValidBucket == built /\ max_tokens > 0 /\ tokens_per_second > 0

\* positions inside the with block
InCritical == {"refill_read", "refill_write", "decide", "debit", "deny"}

Quiescent == \A t \in Threads : pc[t] = "idle"

AllowedCalls == {i \in DOMAIN history : history[i].outcome = "allowed"}

\* the level call i compared its cost with (after its refill, before any debit)
LevelAfterRefill(i) ==
  IF history[i].outcome = "allowed" THEN history[i].level + history[i].cost
  ELSE history[i].level

\* every call so far had cost 1 and read the same clock value, which is still current
UnitCostNoRefill ==
  /\ \A i \in DOMAIN history : history[i].cost = 1 /\ history[i].now = clock
  /\ \A t \in Threads : pc[t] \in InCritical => cost[t] = 1

\* calls s..j all have the cost of call s and read the same clock value
SameCostSameTime(s, j) ==
  \A i \in s..j : history[i].cost = history[s].cost /\ history[i].now = history[s].now

\* call i+1 retries call i's cost exactly call i's retry-after later
RetriesAfterWait(i) ==
  /\ history[i].outcome = "denied"
  /\ history[i + 1].cost = history[i].cost
  /\ history[i + 1].now = history[i].now + history[i].value

\* ---------------------------------------------------------------- claims

\* C1: on a bucket with positive capacity and rate, whenever no call is inside
\* the critical section (every call so far has returned or not started),
\* 0 <= level <= capacity.
C1_LevelInRange ==
  (ValidBucket /\ ~lock) => (0 <= tokens /\ tokens <= max_tokens)

\* C2: cost-1 calls from any threads on a full bucket of capacity C >= 0 (refill
\* rate >= 0) that all read one clock value never admit more than C calls, and
\* once all calls have returned and at least C were issued exactly C were allowed.
C2_NoOverAdmission ==
  (built /\ max_tokens >= 0 /\ tokens_per_second >= 0 /\ UnitCostNoRefill) =>
     /\ Cardinality(AllowedCalls) <= max_tokens
     /\ (Quiescent /\ Len(history) >= max_tokens) => Cardinality(AllowedCalls) = max_tokens

\* C2 witness: the bucket's C unit calls were allowed, and two more threads'
\* calls are in flight at once: one on the denied branch, one waiting for the lock
C2_Witness ==
  /\ ValidBucket /\ UnitCostNoRefill
  /\ Len(history) = max_tokens
  /\ Cardinality(AllowedCalls) = max_tokens
  /\ \E t, u \in Threads : pc[t] = "deny" /\ pc[u] = "acquire"

\* C3: at most one thread is between acquiring the lock and returning, and the
\* lock is held exactly while some thread is there, so level and lastRefill are
\* read and written by the lock holder only.
C3_MutualExclusion ==
  /\ Cardinality({t \in Threads : pc[t] \in InCritical}) <= 1
  /\ lock <=> (\E t \in Threads : pc[t] \in InCritical)

\* C3 witness: one thread has refilled and not yet decided while another waits for the lock
C3_Witness ==
  \E t, u \in Threads : pc[t] = "decide" /\ pc[u] = "acquire"

C5_RetryAfterExact ==
  ValidBucket =>
    \A i \in 1..(Len(history) - 1) :
      RetriesAfterWait(i) => history[i + 1].outcome = "allowed"

\* C5 (amended): a call of cost <= capacity denied with retryAfter r, where the
\* rounded quotient r still covers the deficit (r * refillRate >= cost - level),
\* and retried with the same cost exactly r later, no call in between, is allowed.
C5_RetryAfterCovers ==
  ValidBucket =>
    \A i \in 1..(Len(history) - 1) :
      (/\ RetriesAfterWait(i)
       /\ history[i].cost <= max_tokens
       /\ history[i].value * tokens_per_second >= history[i].cost - history[i].level)
      => history[i + 1].outcome = "allowed"

\* C5 witness: a denied call with a positive wait, retried exactly that much later and allowed
C5_Witness ==
  /\ ValidBucket
  /\ \E i \in 1..(Len(history) - 1) :
       /\ RetriesAfterWait(i)
       /\ history[i].value > 0
       /\ history[i].cost <= max_tokens
       /\ history[i + 1].outcome = "allowed"

\* C6: a call whose refill measured an elapsed time of at least
\* capacity / refillRate finds level = capacity after the refill, and is not
\* denied if its cost is at most capacity.
C6_RefillFull ==
  ValidBucket =>
    \A t \in Threads :
      (pc[t] \in {"decide", "debit", "deny"}
         /\ time_elapsed[t] * tokens_per_second >= max_tokens) =>
        /\ pc[t] = "decide" => tokens = max_tokens
        /\ cost[t] <= max_tokens => pc[t] # "deny"

\* C6 witness: the bucket was emptied, capacity / refillRate elapsed, and the
\* next call of cost = capacity is on the allowed branch
C6_Witness ==
  /\ ValidBucket
  /\ Len(history) >= 1 /\ history[Len(history)].level = 0
  /\ \E t \in Threads :
       /\ pc[t] = "debit" /\ cost[t] = max_tokens
       /\ time_elapsed[t] * tokens_per_second >= max_tokens

\* C7: a call of cost > capacity never reaches the allowed branch; it returns
\* denied with retryAfter = (cost - level) / refillRate for the level after
\* its refill, which is at most capacity.
C7_DegenerateCost ==
  ValidBucket =>
    /\ \A t \in Threads : cost[t] > max_tokens => pc[t] # "debit"
    /\ \A i \in DOMAIN history :
         history[i].cost > max_tokens =>
           /\ history[i].outcome = "denied"
           /\ history[i].level <= max_tokens
           /\ history[i].value = Div(history[i].cost - history[i].level, tokens_per_second)
           /\ history[i].value >= 0

\* C7 witness: a call of cost capacity + 1 denied after the clock has advanced
\* far enough to add more than a whole bucket
C7_Witness ==
  /\ ValidBucket
  /\ \E i \in DOMAIN history :
       /\ history[i].cost = max_tokens + 1
       /\ history[i].outcome = "denied"
       /\ i > 1 /\ (history[i].now - history[i - 1].now) * tokens_per_second > max_tokens

\* C8: a bucket exists only with capacity > 0 and refillRate > 0.
C8_InvalidConfigRejected ==
  built => (max_tokens > 0 /\ tokens_per_second > 0)

\* C9: a call with cost <= 0 returns InvalidArgument, neither allowed nor denied,
\* and leaves a level that is at most capacity.
C9_InvalidCostRejected ==
  ValidBucket =>
    \A i \in DOMAIN history :
      history[i].cost <= 0 =>
        (history[i].outcome = "InvalidArgument" /\ history[i].level <= max_tokens)

\* C10: before any call a constructed bucket holds level = capacity, and a first
\* call of cost 1 on a bucket of capacity >= 1 is allowed with remaining = capacity - 1.
C10_StartsFull ==
  ValidBucket =>
    /\ (Len(history) = 0 /\ Quiescent) => tokens = max_tokens
    /\ (Len(history) >= 1 /\ history[1].cost = 1 /\ max_tokens >= 1) =>
         (history[1].outcome = "allowed" /\ history[1].value = max_tokens - 1)

\* C10 witness: the first call had cost 1 and was allowed on a bucket of capacity 2
C10_Witness ==
  /\ ValidBucket /\ max_tokens = 2
  /\ Len(history) >= 1 /\ history[1].cost = 1 /\ history[1].outcome = "allowed"
  /\ history[1].value = 1

\* ---------------------------------------------------------------- sequential reference
\* one whole allow_request(c) run alone on a bucket with level s.level and
\* last_refill s.last, its clock reading being n (lines 52-62 in program order)
SeqStep(s, c, n) ==
  LET L == Min(max_tokens, s.level + (n - s.last) * tokens_per_second)
  IN  IF L >= c
        THEN [level |-> L - c, last |-> n, outcome |-> "allowed", value |-> L - c]
        ELSE IF tokens_per_second = 0
          THEN [level |-> L, last |-> n, outcome |-> "ZeroDivisionError", value |-> 0]
          ELSE [level |-> L, last |-> n, outcome |-> "denied",
                value |-> Div(c - L, tokens_per_second)]

\* the bucket as __init__ left it: full, stamped with reading 0
SeqInit == [level |-> max_tokens, last |-> 0, outcome |-> "none", value |-> 0]

\* the result of running the first k returned calls one at a time, in the order
\* of the log, on the bucket as __init__ left it
RECURSIVE SeqRun(_)
SeqRun(k) ==
  IF k = 0
    THEN <<SeqInit>>
    ELSE LET run == SeqRun(k - 1)
         IN  Append(run, SeqStep(run[k], history[k].cost, history[k].now))

\* C11: the decisions returned by concurrent calls, and the level and lastRefill
\* they leave, are those of running the same calls one at a time in the order
\* in which they held the lock.
C11_Linearizable ==
  built =>
    LET run == SeqRun(Len(history))
    IN  /\ \A k \in DOMAIN history :
             /\ history[k].outcome = run[k + 1].outcome
             /\ history[k].value = run[k + 1].value
             /\ history[k].level = run[k + 1].level
        /\ ~lock => (tokens = run[Len(history) + 1].level
                     /\ last_refill = run[Len(history) + 1].last)

\* C11 witness: after an allowed call, a second call is on the denied branch
\* inside the block while a third thread's call waits for the lock
C11_Witness ==
  /\ ValidBucket /\ Len(history) = 1 /\ history[1].outcome = "allowed"
  /\ \E t, u \in Threads : pc[t] = "deny" /\ pc[u] = "acquire"

\* ---------------------------------------------------------------- a clock that runs backwards
\* time.monotonic() never returns less than it did before.  The documented
\* clock-regression policy is about a clock source that does; this is
\* _refill_tokens, lines 33-37, when the reading v is earlier than the last one.
RefillReadBack(t, v) ==
  /\ pc[t] = "refill_read"
  /\ v < clock
  /\ clock' = v
  /\ now' = [now EXCEPT ![t] = v]
  /\ time_elapsed' = [time_elapsed EXCEPT ![t] = v - last_refill]
  /\ tokens_to_add' = [tokens_to_add EXCEPT ![t] = (v - last_refill) * tokens_per_second]
  /\ pc' = [pc EXCEPT ![t] = "refill_write"]
  /\ UNCHANGED <<bucket, cost, history>>

NextAnyClock ==
  \/ Next
  \/ \E t \in Threads, v \in 0..MaxClock : RefillReadBack(t, v)

SpecAnyClock == Init /\ [][NextAnyClock]_vars

\* the level the bucket held when the call now in progress began
PrevLevel == IF history = <<>> THEN max_tokens ELSE history[Len(history)].level

\* C12: no step ever sets lastRefill to a smaller value than it had, also when
\* the clock reading taken in a call is earlier than the stored lastRefill.
C12_LastRefillMonotone ==
  [][last_refill' >= last_refill]_vars

\* C13: when a call's clock reading is earlier than lastRefill (its elapsed
\* time is negative), the level after its refill equals the level before the
\* call and is >= 0.
C13_RegressionClamped ==
  ValidBucket =>
    \A t \in Threads :
      (pc[t] = "decide" /\ time_elapsed[t] < 0) => (tokens = PrevLevel /\ tokens >= 0)

\* ---------------------------------------------------------------- call by call
\* level and lastRefill as the call before call i (or __init__) left them
LevelBefore(i) == IF i = 1 THEN max_tokens ELSE history[i - 1].level
StampBefore(i) == IF i = 1 THEN 0 ELSE history[i - 1].now

\* L' of call i: min(capacity, level + elapsed * refillRate)
RefilledLevel(i) ==
  Min(max_tokens, LevelBefore(i) + (history[i].now - StampBefore(i)) * tokens_per_second)

\* the rule without what it says of the sign of retryAfter
DecisionRule(i) ==
  LET L == RefilledLevel(i)
  IN  IF L >= history[i].cost
        THEN /\ history[i].outcome = "allowed"
             /\ history[i].value = L - history[i].cost
             /\ history[i].level = L - history[i].cost
        ELSE /\ history[i].outcome = "denied"
             /\ history[i].value = Div(history[i].cost - L, tokens_per_second)

\* C14 (as claimed): a call is allowed iff L' >= cost; allowed, it returns and
\* stores L' - cost; denied, it returns (cost - L') / refillRate, which is > 0.
C14_DecisionRulePositive ==
  ValidBucket =>
    \A i \in DOMAIN history :
      DecisionRule(i) /\ (history[i].outcome = "denied" => history[i].value > 0)

\* C14 (amended): as claimed, except that the returned quotient, rounded as the
\* division rounds it, is >= 0 and can be 0.
C14_DecisionRule ==
  ValidBucket =>
    \A i \in DOMAIN history :
      DecisionRule(i) /\ (history[i].outcome = "denied" => history[i].value >= 0)

\* C14 witness: a call that refilled over a positive elapsed time was denied
\* with a positive wait, and another call was allowed
C14_Witness ==
  /\ ValidBucket
  /\ \E i, j \in DOMAIN history :
       /\ history[i].outcome = "denied" /\ history[i].value > 0
       /\ history[i].now > StampBefore(i)
       /\ history[j].outcome = "allowed"

\* C15: a denied call leaves level = min(capacity, previous level + elapsed *
\* refillRate), undebited, and lastRefill = the clock reading it took; no call
\* changes capacity or refillRate.
C15_DeniedRefillsOnly ==
  /\ [](built =>
          \A i \in DOMAIN history :
            history[i].outcome = "denied" => history[i].level = RefilledLevel(i))
  /\ []((built /\ ~lock /\ history # <<>>) =>
          /\ last_refill = history[Len(history)].now
          /\ history[Len(history)].outcome = "denied" =>
               tokens = RefilledLevel(Len(history)))
  /\ [][built => (max_tokens' = max_tokens /\ tokens_per_second' = tokens_per_second)]_vars

\* C15 witness: a denied call whose refill raised the level, and the bucket at rest after it
C15_Witness ==
  /\ built /\ ~lock /\ history # <<>>
  /\ history[Len(history)].outcome = "denied"
  /\ history[Len(history)].level > LevelBefore(Len(history))

\* ---------------------------------------------------------------- a finer clock
\* Under Spec a clock reading is a whole number of the unit in which one unit
\* of time refills a whole number of tokens, so the refill is exact.  The
\* clock is not the caller's to choose and a float clock resolves instants
\* between those; self.tokens + tokens_to_add then rounds to the precision of
\* the level (1.0 + 0.9999999999999999 is 2.0).  The level being a whole
\* number, that is the product rounded to nearest.  Under SpecFine the clock,
\* now, last_refill, time_elapsed and the returned wait count 1/Fine of the
\* unit of Spec.
Fine == 3

\* RefillReadFine with the product rounded up instead of to nearest
RefillReadFine_RoundsUp(t, d) ==
  /\ pc[t] = "refill_read"
  /\ clock + d <= MaxClock * Fine
  /\ clock' = clock + d
  /\ now' = [now EXCEPT ![t] = clock']
  /\ time_elapsed' = [time_elapsed EXCEPT ![t] = clock' - last_refill]
  /\ tokens_to_add' = [tokens_to_add EXCEPT ![t] =
       ((clock' - last_refill) * tokens_per_second + Fine - 1) \div Fine]
  /\ pc' = [pc EXCEPT ![t] = "refill_write"]
  /\ UNCHANGED <<bucket, cost, history>>

\* _refill_tokens, lines 33-37, with a reading on the finer clock:
\* tokens_to_add = time_elapsed * tokens_per_second, rounded to nearest
RefillReadFine(t, d) ==
  /\ pc[t] = "refill_read"
  /\ clock + d <= MaxClock * Fine
  /\ clock' = clock + d
  /\ now' = [now EXCEPT ![t] = clock']
  /\ time_elapsed' = [time_elapsed EXCEPT ![t] = clock' - last_refill]
  /\ tokens_to_add' = [tokens_to_add EXCEPT ![t] =
       DivPos((clock' - last_refill) * tokens_per_second, Fine)]
  /\ pc' = [pc EXCEPT ![t] = "refill_write"]
  /\ UNCHANGED <<bucket, cost, history>>

\* lines 61-62, the wait expressed on the finer clock
DenyFine(t) ==
  /\ pc[t] = "deny"
  /\ IF tokens_per_second = 0
       THEN Leave(t, "ZeroDivisionError", 0, tokens)
       ELSE Leave(t, "denied", Div((cost[t] - tokens) * Fine, tokens_per_second), tokens)
  /\ UNCHANGED <<built, max_tokens, tokens_per_second, tokens, last_refill, clock>>

NextFine ==
  \/ \E c \in Capacities, r \in Rates : New(c, r)
  \/ \E t \in Threads : Call(t)
  \/ \E t \in Threads, c \in Costs : Acquire(t, c)
  \/ \E t \in Threads, d \in 0..(MaxClock * Fine) : RefillReadFine(t, d)
  \/ \E t \in Threads : RefillWrite(t)
  \/ \E t \in Threads : Decide(t)
  \/ \E t \in Threads : Debit(t)
  \/ \E t \in Threads : DenyFine(t)

SpecFine == Init /\ [][NextFine]_vars

\* call i+1 retries call i's cost sooner than call i's retry-after
RetriesEarly(i) ==
  /\ history[i].outcome = "denied"
  /\ history[i + 1].cost = history[i].cost
  /\ history[i + 1].now - history[i].now < history[i].value

RefilledLevelFine(i) ==
  Min(max_tokens,
      history[i].level
        + DivPos((history[i + 1].now - history[i].now) * tokens_per_second, Fine))

ThreadStep(t) ==
  \/ \E c \in Costs : Acquire(t, c)
  \/ \E d \in 0..MaxClock : RefillRead(t, d)
  \/ RefillWrite(t)
  \/ Decide(t)
  \/ Debit(t)
  \/ Deny(t)

\* a thread that can take a step of allow_request is eventually scheduled
FairSpec == Spec /\ \A t \in Threads : WF_vars(ThreadStep(t))

\* C17: under fair scheduling every thread that has invoked allow_request
\* returns from it, and the lock is held only while some thread is inside the
\* with block, whichever way the last one left it.
C17_Terminates ==
  /\ \A t \in Threads : (pc[t] # "idle") ~> (pc[t] = "idle")
  /\ [](lock => \E t \in Threads : pc[t] \in InCritical)

\* C17 witness: a call has left by the exception, the lock is free and another
\* thread is waiting for it
C17_Witness ==
  /\ built /\ ~lock
  /\ history # <<>> /\ history[Len(history)].outcome = "ZeroDivisionError"
  /\ \E t \in Threads : pc[t] = "acquire"

\* ---------------------------------------------------------------- make_requests
\* the tuple allow_request returned for call i: (True, remaining) or
\* (False, wait_time)
ResultTuple(i) == <<history[i].outcome = "allowed", history[i].value>>

\* Python's truth value of a tuple: true unless the tuple is empty
Truthy(tup) == Len(tup) # 0

\* lines 69-72: if limiter.allow_request(): ... ALLOWED, else: ... DENIED
Reported(i) == IF Truthy(ResultTuple(i)) THEN "ALLOWED" ELSE "DENIED"

\* C18: for each call the harness makes (default cost 1) it reports ALLOWED
\* exactly when the limiter allowed the call and DENIED exactly when the
\* limiter denied it.
C18_HarnessReportsOutcome ==
  ValidBucket =>
    \A i \in DOMAIN history :
      history[i].cost = 1 =>
        /\ Reported(i) = "ALLOWED" <=> history[i].outcome = "allowed"
        /\ Reported(i) = "DENIED" <=> history[i].outcome = "denied"

\* ---------------------------------------------------------------- rate bound
\* the costs of the allowed calls among the first k returned calls, summed
RECURSIVE SumAllowed(_)
SumAllowed(k) ==
  IF k = 0
    THEN 0
    ELSE SumAllowed(k - 1)
           + (IF history[k].outcome = "allowed" THEN history[k].cost ELSE 0)

PositiveCosts == \A i \in DOMAIN history : history[i].cost > 0

C20_OnlyAllowedLowers ==
  (built /\ PositiveCosts) =>
    \A i \in DOMAIN history :
      /\ history[i].level < LevelBefore(i) =>
           /\ history[i].outcome = "allowed"
           /\ LevelBefore(i) - history[i].level <= history[i].cost
      /\ history[i].outcome = "allowed" => history[i].level >= 0

\* C20 witness: an allowed call after a refill, which lowers the level by
\* less than its cost and leaves it at 0
C20_Witness ==
  /\ ValidBucket /\ PositiveCosts
  /\ \E i \in DOMAIN history :
       /\ history[i].outcome = "allowed"
       /\ history[i].now > StampBefore(i)
       /\ history[i].level < LevelBefore(i)
       /\ LevelBefore(i) - history[i].level < history[i].cost
       /\ history[i].level = 0

====
